---- MODULE Spec2Model ----
(***************************************************************************)
(* Model of rctclient's command line client (src/rctclient/cli.py): the    *)
(* read-value command (read_value) and the receive loop (receive_frame),   *)
(* together with the collaborators they call: the registry, the frame      *)
(* encoder (SendFrame), the incremental frame decoder (ReceiveFrame), the  *)
(* value decoder and the logging facade.                                   *)
(***************************************************************************)
EXTENDS Integers, Sequences, FiniteSets, TLC

VARIABLES
    pc,          \* position of read_value: start, resolve, connect, send, recv, check, decode, close, done
    id,          \* --id option   (optional string, a sequence of characters)
    name,        \* --name option (optional string)
    verbose,     \* --verbose flag
    oinfo,       \* local oinfo: {} while unbound, {descriptor} once assigned
    sock,        \* the socket: none, created, connected, closed, close_failed
    wireOut,     \* bytes of the request the kernel accepted, in order
    wire,        \* bytes the peer has still to deliver
    peerClosed,  \* the peer has shut the connection down
    lastIO,      \* outcome of the latest select/recv of receive_frame
    buf,         \* local buf of receive_frame: the latest chunk read
    i,           \* local i of receive_frame: bytes of buf the frame consumed
    frame,       \* the ReceiveFrame of receive_frame (rframe once returned)
    stdout,      \* what click.echo wrote
    log,         \* records emitted by log.error / log.warning
    exitStatus,  \* process exit status, -1 while running
    exc,         \* how the command ended: none, SystemExit or the uncaught exception
    nLookup,     \* registry lookups performed
    nConnect,    \* sock.connect calls
    nSend,       \* sock.send calls
    nDecode,     \* decode_value calls
    decodeArgs,  \* arguments of the decode_value calls, in order
    fed,         \* every byte recv has returned to receive_frame, in arrival order
    waited,      \* time receive_frame has spent in select, saturating at TIMEOUT
    budget,      \* the timeout handed to the latest select
    input,       \* decoder harness: the frames that were encoded
    decoded,     \* decoder harness: the frames earlier decoder instances completed
    consumed     \* decoder harness: sum of the counts consume returned

vars == <<pc, id, name, verbose, oinfo, sock, wireOut, wire, peerClosed, lastIO,
          buf, i, frame, stdout, log, exitStatus, exc, nLookup, nConnect, nSend,
          nDecode, decodeArgs, fed, waited, budget, input, decoded, consumed>>

----------------------------------------------------------------------------
(* Bounds of the model.                                                    *)

\* longest payload of a response the peer sends
MaxPayload == 1
\* largest number of bytes one sock.recv returns (1024 in the code)
MaxChunk == 2
\* longest payload of a frame the decoder harness encodes
MaxFramePayload == 2

----------------------------------------------------------------------------
(* Wire format shared by SendFrame and ReceiveFrame.  Bytes are modelled   *)
(* with a small modulus; a frame is                                        *)
(*   START command length id payload[length] checksum                      *)
(* where every byte after START that equals START or ESCAPE is preceded by *)
(* ESCAPE, and checksum is the sum of command, length, id and payload.     *)

ByteMod == 4
Byte == 0 .. (ByteMod - 1)
START_TOKEN == 3
ESCAPE_TOKEN == 2
Command_READ == 1
Command_RESPONSE == 0
FRAME_LENGTH_HEADER == 3

\* receive_frame(sock, timeout=2)
TIMEOUT == 2

RECURSIVE SumSeq(_)
SumSeq(s) == IF s = <<>> THEN 0 ELSE Head(s) + SumSeq(Tail(s))

CRC(body) == SumSeq(body) % ByteMod

\* an encoder that stuffs the delimiter only
RECURSIVE Escape_StartOnly(_)
Escape_StartOnly(s) ==
    IF s = <<>> THEN <<>>
    ELSE IF Head(s) = START_TOKEN
         THEN <<ESCAPE_TOKEN, Head(s)>> \o Escape_StartOnly(Tail(s))
         ELSE <<Head(s)>> \o Escape_StartOnly(Tail(s))

RECURSIVE Escape(_)
Escape(s) ==
    IF s = <<>> THEN <<>>
    ELSE IF Head(s) \in {START_TOKEN, ESCAPE_TOKEN}
         THEN <<ESCAPE_TOKEN, Head(s)>> \o Escape(Tail(s))
         ELSE <<Head(s)>> \o Escape(Tail(s))

\* bytes of a frame whose checksum field is crc
FrameBytes(command, oid, payload, crc) ==
    <<START_TOKEN>> \o Escape(<<command, Len(payload), oid>> \o payload \o <<crc>>)

\* SendFrame(command=..., id=...).data
SendFrame(command, oid, payload) ==
    FrameBytes(command, oid, payload, CRC(<<command, Len(payload), oid>> \o payload))

----------------------------------------------------------------------------
(* ReceiveFrame: the incremental decoder.                                  *)

NewReceiveFrame ==
    [state |-> "AWAITING_START", escaping |-> FALSE, buffer |-> <<>>,
     command |-> 0, id |-> 0, data |-> <<>>,
     received_crc |-> 0, calculated_crc |-> 0]

FrameTerminal(fr) == fr.state \in {"DONE", "FAILED"}

\* a decoder that completes the frame without comparing the checksums
AppendByte_NoCheck(fr, b) ==
    LET nb  == Append(fr.buffer, b)
        n   == Len(nb)
        len == nb[2]
    IN  IF n < FRAME_LENGTH_HEADER
        THEN [fr EXCEPT !.state = "READING_HEADER", !.escaping = FALSE, !.buffer = nb]
        ELSE IF n < FRAME_LENGTH_HEADER + len
        THEN [fr EXCEPT !.state = "READING_PAYLOAD", !.escaping = FALSE, !.buffer = nb,
                        !.command = nb[1], !.id = nb[3]]
        ELSE IF n = FRAME_LENGTH_HEADER + len
        THEN [fr EXCEPT !.state = "READING_CHECKSUM", !.escaping = FALSE, !.buffer = nb,
                        !.command = nb[1], !.id = nb[3]]
        ELSE [fr EXCEPT !.state = "DONE", !.escaping = FALSE, !.buffer = nb,
                        !.data = SubSeq(nb, FRAME_LENGTH_HEADER + 1, FRAME_LENGTH_HEADER + len),
                        !.received_crc = b,
                        !.calculated_crc = CRC(SubSeq(nb, 1, FRAME_LENGTH_HEADER + len))]

\* the frame after one more unescaped byte b of the body
AppendByte(fr, b) ==
    LET nb  == Append(fr.buffer, b)
        n   == Len(nb)
        len == nb[2]
    IN  IF n < FRAME_LENGTH_HEADER
        THEN [fr EXCEPT !.state = "READING_HEADER", !.escaping = FALSE, !.buffer = nb]
        ELSE IF n < FRAME_LENGTH_HEADER + len
        THEN [fr EXCEPT !.state = "READING_PAYLOAD", !.escaping = FALSE, !.buffer = nb,
                        !.command = nb[1], !.id = nb[3]]
        ELSE IF n = FRAME_LENGTH_HEADER + len
        THEN [fr EXCEPT !.state = "READING_CHECKSUM", !.escaping = FALSE, !.buffer = nb,
                        !.command = nb[1], !.id = nb[3]]
        ELSE LET body == SubSeq(nb, 1, FRAME_LENGTH_HEADER + len)
                 calc == CRC(body)
             IN  [fr EXCEPT !.state = IF calc = b THEN "DONE" ELSE "FAILED",
                            !.escaping = FALSE, !.buffer = nb,
                            !.data = SubSeq(nb, FRAME_LENGTH_HEADER + 1, FRAME_LENGTH_HEADER + len),
                            !.received_crc = b, !.calculated_crc = calc]

\* the frame after the wire byte b
ConsumeByte(fr, b) ==
    IF fr.state = "AWAITING_START"
    THEN IF b = START_TOKEN THEN [fr EXCEPT !.state = "READING_HEADER"] ELSE fr
    ELSE IF ~fr.escaping /\ b = ESCAPE_TOKEN
    THEN [fr EXCEPT !.escaping = TRUE]
    ELSE AppendByte(fr, b)

\* a consume that runs to the end of data whatever the frame's state
RECURSIVE ConsumeFrom_ToEnd(_, _, _)
ConsumeFrom_ToEnd(fr, data, k) ==
    IF k = Len(data)
    THEN [frame |-> fr, i |-> k]
    ELSE ConsumeFrom_ToEnd(ConsumeByte(fr, data[k + 1]), data, k + 1)

\* frame.consume(data): the frame afterwards and the number of bytes consumed;
\* a frame that ends FAILED is the FrameCRCMismatch the call raises
RECURSIVE ConsumeFrom(_, _, _)
ConsumeFrom(fr, data, k) ==
    IF k = Len(data) \/ FrameTerminal(fr)
    THEN [frame |-> fr, i |-> k]
    ELSE ConsumeFrom(ConsumeByte(fr, data[k + 1]), data, k + 1)

\* a consume that forgets a pending escape between calls
Consume_ResetEscape(fr, data) == ConsumeFrom([fr EXCEPT !.escaping = FALSE], data, 0)

Consume(fr, data) == ConsumeFrom(fr, data, 0)

Complete(fr) == fr.state = "DONE"

----------------------------------------------------------------------------
(* Registry (R): the table of known objects and its two lookups.           *)

Registry ==
    << [object_id |-> 1, name |-> "a.flag", response_data_type |-> "BOOL",
        index |-> 0, description |-> "a flag", unit |-> ""],
       [object_id |-> 2, name |-> "b.level", response_data_type |-> "UINT8",
        index |-> 1, description |-> "a level", unit |-> "%"] >>

Descriptors == {Registry[k] : k \in 1 .. Len(Registry)}

\* R.get_by_id(id): the descriptors with that id; none is the KeyError
GetById(oid) == {d \in Descriptors : d.object_id = oid}

\* R.get_by_name(name): the descriptors with that name; none is the KeyError
GetByName(n) == {d \in Descriptors : d.name = n}

----------------------------------------------------------------------------
(* decode_value(data_type, data): the text of the decoded value, or the    *)
(* failure of a payload whose length does not fit the type.                *)

DecodeValue(data_type, data) ==
    IF Len(data) # 1
    THEN [ok |-> FALSE, value |-> ""]
    ELSE IF data_type = "BOOL"
    THEN [ok |-> TRUE, value |-> IF data[1] # 0 THEN "True" ELSE "False"]
    ELSE [ok |-> TRUE, value |-> ToString(data[1])]

----------------------------------------------------------------------------
(* Options of the command.  An optional string is a record: none says the  *)
(* option was not given, val is its text.                                  *)

NoneStr == [none |-> TRUE, val |-> <<>>]
NoneName == [none |-> TRUE, val |-> ""]
Some(v) == [none |-> FALSE, val |-> v]

IdInputs ==
    { <<>>, <<"1">>, <<"0", "x">>, <<"0", "x", "0">>, <<"0", "x", "1">>,
      <<"0", "x", "2">>, <<"0", "x", "x">>, <<"x", "x", "1">>,
      <<"0", "x", "1", "0">>, <<"0", "x", "0", "x", "2">> }

NameInputs == {"", "a.flag", "b.level", "c.unknown"}

HexChars == {"0", "1", "2"}

HexValue(c) == IF c = "0" THEN 0 ELSE IF c = "1" THEN 1 ELSE 2

RECURSIVE HexFold(_, _)
HexFold(s, acc) == IF s = <<>> THEN acc ELSE HexFold(Tail(s), 16 * acc + HexValue(Head(s)))

\* id[2:]
Slice2(s) == SubSeq(s, 3, Len(s))

\* int(text, 16): an optional 0x prefix, then at least one hex digit;
\* anything else is the ValueError
ParseHex(text) ==
    LET digits == IF Len(text) >= 2 /\ text[1] = "0" /\ text[2] = "x"
                  THEN SubSeq(text, 3, Len(text)) ELSE text
    IN  IF digits # <<>> /\ \A k \in 1 .. Len(digits) : digits[k] \in HexChars
        THEN [ok |-> TRUE, value |-> HexFold(digits, 0)]
        ELSE [ok |-> FALSE, value |-> 0]

----------------------------------------------------------------------------
(* Logging and process exit.                                               *)

\* Logger.error(msg, err=True): Logger._log() takes no keyword err, so the
\* call raises TypeError before any record is emitted
LogErrorRaises(errKeyword) == errKeyword

\* sys.exit(status)
SysExit(status) ==
    /\ pc' = "done"
    /\ exitStatus' = status
    /\ exc' = "SystemExit"

\* an exception nothing catches ends the process with a traceback and status 1
Uncaught(e) ==
    /\ pc' = "done"
    /\ exitStatus' = 1
    /\ exc' = e

----------------------------------------------------------------------------
(* The peer: what a device answers to the request.                         *)

RECURSIVE SeqsUpTo(_)
SeqsUpTo(n) ==
    IF n = 0 THEN {<<>>}
    ELSE LET shorter == SeqsUpTo(n - 1)
         IN  shorter \cup {Append(s, b) : s \in {t \in shorter : Len(t) = n - 1}, b \in Byte}

ResponseIds == 0 .. 2
Trailing == {<<>>, <<1>>}

\* a response frame, its checksum right (d = 0) or off by d, and what follows it
PeerStreams ==
    { FrameBytes(Command_RESPONSE, oid, p,
                 (CRC(<<Command_RESPONSE, Len(p), oid>> \o p) + d) % ByteMod) \o t :
        oid \in ResponseIds, p \in SeqsUpTo(MaxPayload), d \in {0, 1}, t \in Trailing }

\* the device answers a request that reached it whole and stays silent on a
\* truncated one
PeerAnswers(whole) == IF whole THEN PeerStreams ELSE {<<>>}

----------------------------------------------------------------------------
Init ==
    /\ pc = "start"
    /\ id \in {NoneStr} \cup {Some(s) : s \in IdInputs}
    /\ name \in {NoneName} \cup {Some(n) : n \in NameInputs}
    /\ verbose \in BOOLEAN
    /\ oinfo = {}
    /\ sock = "none"
    /\ wireOut = <<>>
    /\ wire = <<>>
    /\ peerClosed = FALSE
    /\ lastIO = "none"
    /\ buf = <<>>
    /\ i = 0
    /\ frame = NewReceiveFrame
    /\ stdout = <<>>
    /\ log = <<>>
    /\ exitStatus = -1
    /\ exc = "none"
    /\ nLookup = 0
    /\ nConnect = 0
    /\ nSend = 0
    /\ nDecode = 0
    /\ decodeArgs = <<>>
    /\ fed = <<>>
    /\ waited = 0
    /\ budget = 0
    /\ input = <<>>
    /\ decoded = <<>>
    /\ consumed = 0

ioVars == <<wireOut, wire, peerClosed, lastIO, buf, i, frame, fed, waited, budget>>
feedVars == <<input, decoded, consumed>>
outVars == <<stdout, nDecode, decodeArgs>>
countVars == <<nLookup, nConnect, nSend>>
optVars == <<id, name, verbose>>

\* lines 127-129: exactly one of --id and --name
CheckOptions ==
    /\ pc = "start"
    /\ IF (id.none /\ name.none) \/ (~id.none /\ ~name.none)
       THEN IF LogErrorRaises(TRUE)
            THEN Uncaught("TypeError") /\ UNCHANGED log
            ELSE SysExit(1) /\ log' = Append(log, <<"Please specify either --id or --name">>)
       ELSE pc' = "resolve" /\ UNCHANGED <<log, exitStatus, exc>>
    /\ UNCHANGED <<optVars, feedVars, oinfo, sock, ioVars, outVars, countVars>>

\* a KeyError handler that logs and carries on
OnKeyError_NoExit ==
    /\ log' = Append(log, <<"Could not find requested id or name">>)
    /\ pc' = "connect"
    /\ UNCHANGED <<oinfo, exitStatus, exc>>

\* lines 140-142: the KeyError of a lookup is logged and ends the command
OnKeyError ==
    /\ log' = Append(log, <<"Could not find requested id or name">>)
    /\ SysExit(1)
    /\ UNCHANGED oinfo

\* lines 131-146: look the object up by id or by name
Resolve ==
    /\ pc = "resolve"
    /\ IF ~id.none /\ id.val # <<>>
       THEN LET real_id == ParseHex(Slice2(id.val))
            IN  IF ~real_id.ok
                THEN /\ IF LogErrorRaises(TRUE)
                        THEN Uncaught("TypeError") /\ UNCHANGED log
                        ELSE SysExit(1) /\ log' = Append(log, <<"Invalid --id parameter, can't parse">>)
                     /\ UNCHANGED <<oinfo, nLookup>>
                ELSE /\ nLookup' = nLookup + 1
                     /\ IF GetById(real_id.value) = {}
                        THEN OnKeyError
                        ELSE /\ oinfo' = GetById(real_id.value)
                             /\ pc' = "connect"
                             /\ UNCHANGED <<log, exitStatus, exc>>
       ELSE IF ~name.none /\ name.val # ""
       THEN /\ nLookup' = nLookup + 1
            /\ IF GetByName(name.val) = {}
               THEN OnKeyError
               ELSE /\ oinfo' = GetByName(name.val)
                    /\ pc' = "connect"
                    /\ UNCHANGED <<log, exitStatus, exc>>
       ELSE /\ pc' = "connect"
            /\ UNCHANGED <<oinfo, nLookup, log, exitStatus, exc>>
    /\ UNCHANGED <<optVars, feedVars, sock, ioVars, outVars, nConnect, nSend>>

\* lines 148-155: create the socket and connect it
Connect ==
    /\ pc = "connect"
    /\ \E outcome \in {"connected", "socket_error", "connect_error"} :
         /\ sock' = IF outcome = "socket_error" THEN "none"
                    ELSE IF outcome = "connect_error" THEN "created" ELSE "connected"
         /\ nConnect' = IF outcome = "socket_error" THEN nConnect ELSE nConnect + 1
         /\ IF outcome = "connected"
            THEN pc' = "send" /\ UNCHANGED <<log, exitStatus, exc>>
            ELSE /\ log' = Append(log, <<"Could not connect to host">>)
                 /\ SysExit(1)
    /\ UNCHANGED <<optVars, feedVars, oinfo, ioVars, outVars, nLookup, nSend>>

Min(a, b) == IF a < b THEN a ELSE b

\* lines 157-160: build the READ frame, hand it to sock.send, enter receive_frame
\* (line 68).  sock.send returns how many bytes the kernel took, or raises.
Send ==
    /\ pc = "send"
    /\ IF oinfo = {}
       THEN /\ Uncaught("UnboundLocalError")
            /\ UNCHANGED <<ioVars, nSend>>
       ELSE LET d == CHOOSE x \in oinfo : TRUE
                data == SendFrame(Command_READ, d.object_id, <<>>)
            IN  /\ nSend' = nSend + 1
                /\ \/ /\ Uncaught("OSError")
                      /\ UNCHANGED ioVars
                   \/ \E n \in 1 .. Len(data) :
                        /\ wireOut' = wireOut \o SubSeq(data, 1, n)
                        /\ wire' \in PeerAnswers(n = Len(data))
                        /\ frame' = NewReceiveFrame
                        /\ pc' = "recv"
                        /\ UNCHANGED <<peerClosed, lastIO, buf, i, fed, waited, budget,
                                       exitStatus, exc>>
    /\ UNCHANGED <<optVars, feedVars, oinfo, sock, outVars, log, nLookup, nConnect>>

\* a deadline for the whole call: each wait gets what the earlier ones left
WaitBudget_Remaining(w) == TIMEOUT - w

\* line 71: the timeout select is called with, after w units of earlier waiting
WaitBudget(w) == TIMEOUT

\* line 71: one call of select that returns after e units
Wait(e) ==
    /\ budget' = WaitBudget(waited)
    /\ waited' = Min(TIMEOUT, waited + e)

\* lines 71-74: select itself fails; the error is logged and raised again
SelectError ==
    /\ pc = "recv"
    /\ Wait(0)
    /\ lastIO' = "select_error"
    /\ log' = Append(log, <<"Error during receive: select returned an error">>)
    /\ Uncaught("OSError")
    /\ UNCHANGED <<optVars, feedVars, oinfo, sock, wireOut, wire, peerClosed, buf, i, frame,
                   fed, outVars, countVars>>

\* lines 71, 76: select returns after the timeout with nothing readable;
\* the if is skipped and the while loop starts over
SelectTimeout ==
    /\ pc = "recv"
    /\ ~peerClosed
    /\ Wait(WaitBudget(waited))
    /\ lastIO' = "select_timeout"
    /\ UNCHANGED <<pc, optVars, feedVars, oinfo, sock, wireOut, wire, peerClosed, buf, i,
                   frame, fed, outVars, log, exitStatus, exc, countVars>>

\* a record that repeats the calculated checksum
CrcRecord_CalculatedTwice(fr) ==
    <<"Received frame CRC mismatch", fr.calculated_crc, fr.calculated_crc>>

\* line 162: the record logged for a FrameCRCMismatch
CrcRecord(fr) == <<"Received frame CRC mismatch", fr.received_crc, fr.calculated_crc>>

\* a receive loop that makes a new frame for every read
FrameForRead_Fresh(fr) == NewReceiveFrame

\* lines 68, 80: the frame a chunk is fed into is the one made before the loop
FrameForRead(fr) == fr

\* leftover bytes that are dropped without a word
LeftoverWarning_Silent(records, chunk, k) == records

\* lines 83-85: bytes of the chunk beyond the completed frame are reported
LeftoverWarning(records, chunk, k) ==
    IF Len(chunk) > k
    THEN Append(records, <<"Frame complete, but buffer still contains bytes", Len(chunk) - k>>)
    ELSE records

\* lines 76-86 and 161-163: the socket is readable and recv returns data, which
\* the frame consumes; a complete frame is returned, a checksum mismatch
\* propagates to read_value, anything else starts the loop over
RecvData ==
    /\ pc = "recv"
    /\ ~peerClosed
    /\ \E e \in 0 .. (WaitBudget(waited) - 1) : Wait(e)
    /\ \E n \in 1 .. Min(MaxChunk, Len(wire)) :
         LET chunk == SubSeq(wire, 1, n)
             r     == Consume(FrameForRead(frame), chunk)
         IN  /\ buf' = chunk
             /\ fed' = fed \o chunk
             /\ wire' = SubSeq(wire, n + 1, Len(wire))
             /\ frame' = r.frame
             /\ i' = r.i
             /\ lastIO' = "recv_data"
             /\ IF r.frame.state = "FAILED"
                THEN /\ log' = Append(log, CrcRecord(r.frame))
                     /\ SysExit(1)
                ELSE IF Complete(r.frame)
                THEN /\ log' = LeftoverWarning(log, chunk, r.i)
                     /\ pc' = "check"
                     /\ UNCHANGED <<exitStatus, exc>>
                ELSE UNCHANGED <<pc, log, exitStatus, exc>>
    /\ UNCHANGED <<optVars, feedVars, oinfo, sock, wireOut, peerClosed, outVars, countVars>>

\* lines 76-78: the peer has closed, recv returns b''; len(buf) > 0 is false
\* and the while loop starts over
RecvEOF ==
    /\ pc = "recv"
    /\ \E e \in (IF peerClosed THEN {0} ELSE 0 .. (WaitBudget(waited) - 1)) : Wait(e)
    /\ peerClosed' = TRUE
    /\ wire' = <<>>
    /\ buf' = <<>>
    /\ lastIO' = "recv_eof"
    /\ UNCHANGED <<pc, optVars, feedVars, oinfo, sock, wireOut, i, frame, fed, outVars, log,
                   exitStatus, exc, countVars>>

\* line 77: recv raises (connection reset); nothing catches it
RecvError ==
    /\ pc = "recv"
    /\ \E e \in 0 .. (WaitBudget(waited) - 1) : Wait(e)
    /\ lastIO' = "recv_error"
    /\ Uncaught("OSError")
    /\ UNCHANGED <<optVars, feedVars, oinfo, sock, wireOut, wire, peerClosed, buf, i, frame,
                   fed, outVars, log, countVars>>

\* a test that lets every response through
IdMatches_Always(rframe, d) == TRUE

\* line 165: the test that lets the response through
IdMatches(rframe, d) == rframe.id = d.object_id

\* lines 164-167: the response must carry the requested id
CheckId ==
    /\ pc = "check"
    /\ LET d == CHOOSE x \in oinfo : TRUE
       IN  IF IdMatches(frame, d)
           THEN pc' = "decode" /\ UNCHANGED <<log, exitStatus, exc>>
           ELSE /\ log' = Append(log, <<"Received unexpected frame", frame.id, d.object_id>>)
                /\ SysExit(1)
    /\ UNCHANGED <<optVars, feedVars, oinfo, sock, ioVars, outVars, countVars>>

\* lines 171-177: the line click.echo prints
EchoLine(v, d, value) ==
    IF v
    THEN [verbose |-> TRUE, value |-> value, index |-> d.index, object_id |-> d.object_id,
          name |-> d.name, description |-> d.description, unit |-> d.unit]
    ELSE [verbose |-> FALSE, value |-> value]

\* decode_value handed the whole frame buffer instead of the payload
DecodeCall_WholeBuffer(d, rframe) == <<d.response_data_type, rframe.buffer>>

\* line 169: the arguments handed to decode_value
DecodeCall(d, rframe) == <<d.response_data_type, rframe.data>>

\* lines 169-177: decode the payload and print the value
Decode ==
    /\ pc = "decode"
    /\ LET d    == CHOOSE x \in oinfo : TRUE
           args == DecodeCall(d, frame)
           r    == DecodeValue(args[1], args[2])
       IN  /\ nDecode' = nDecode + 1
           /\ decodeArgs' = Append(decodeArgs, args)
           /\ IF r.ok
              THEN /\ stdout' = Append(stdout, EchoLine(verbose, d, r.value))
                   /\ pc' = "close"
                   /\ UNCHANGED <<exitStatus, exc>>
              ELSE /\ Uncaught("DecodeError")
                   /\ UNCHANGED stdout
    /\ UNCHANGED <<optVars, feedVars, oinfo, sock, ioVars, log, countVars>>

\* a close failure that changes the exit status
CloseExitStatus_FailOnClose(closeFailed) == IF closeFailed THEN 1 ELSE 0

\* line 183: the status the command ends with after the close
CloseExitStatus(closeFailed) == 0

\* lines 179-183: close the socket, log a failure of the close, exit 0
Close ==
    /\ pc = "close"
    /\ \E closeFailed \in BOOLEAN :
         /\ sock' = IF closeFailed THEN "close_failed" ELSE "closed"
         /\ log' = IF closeFailed
                   THEN Append(log, <<"Exception when disconnecting from the host">>)
                   ELSE log
         /\ SysExit(CloseExitStatus(closeFailed))
    /\ UNCHANGED <<optVars, feedVars, oinfo, ioVars, outVars, countVars>>

Next ==
    \/ CheckOptions
    \/ Resolve
    \/ Connect
    \/ Send
    \/ SelectError
    \/ SelectTimeout
    \/ RecvData
    \/ RecvEOF
    \/ RecvError
    \/ CheckId
    \/ Decode
    \/ Close

Spec == Init /\ [][Next]_vars

----------------------------------------------------------------------------
(* Decoder harness: frames are encoded, and a caller feeds the bytes to a   *)
(* ReceiveFrame in chunks of any size, keeping what consume left over for   *)
(* the next decoder instance.                                              *)

Commands == {Command_READ, Command_RESPONSE}

\* a frame to encode; delta is what is added to its checksum on the wire
FrameInputs ==
    [command : Commands, id : Byte, payload : SeqsUpTo(MaxFramePayload), delta : {0, 1}]

\* the frames that may follow a first one in the same stream
SecondFrames ==
    { [command |-> Command_READ, id |-> ESCAPE_TOKEN, payload |-> <<START_TOKEN>>, delta |-> 0] }

Encoded(f) ==
    FrameBytes(f.command, f.id, f.payload,
               (CRC(<<f.command, Len(f.payload), f.id>> \o f.payload) + f.delta) % ByteMod)

RECURSIVE EncodedAll(_)
EncodedAll(fs) == IF fs = <<>> THEN <<>> ELSE Encoded(Head(fs)) \o EncodedAll(Tail(fs))

FeedInit ==
    /\ pc = "feed"
    /\ input \in {<<f>> : f \in FrameInputs} \cup {<<f, g>> : f \in FrameInputs, g \in SecondFrames}
    /\ wire = EncodedAll(input)
    /\ frame = NewReceiveFrame
    /\ fed = <<>>
    /\ consumed = 0
    /\ decoded = <<>>
    /\ buf = <<>>
    /\ i = 0
    /\ id = NoneStr /\ name = NoneName /\ verbose = FALSE
    /\ oinfo = {} /\ sock = "none" /\ wireOut = <<>>
    /\ peerClosed = FALSE /\ lastIO = "none" /\ waited = 0 /\ budget = 0
    /\ stdout = <<>> /\ log = <<>> /\ exitStatus = -1 /\ exc = "none"
    /\ nLookup = 0 /\ nConnect = 0 /\ nSend = 0 /\ nDecode = 0 /\ decodeArgs = <<>>

harnessFixed == <<pc, id, name, verbose, oinfo, sock, wireOut, peerClosed, lastIO, waited,
                  budget, stdout, log, exitStatus, exc, nLookup, nConnect, nSend, nDecode,
                  decodeArgs, input>>

\* i = frame.consume(chunk) on the next bytes of the stream; the bytes consume
\* did not take stay in the stream.  A finished decoder is offered bytes once.
Feed ==
    /\ pc = "feed"
    /\ FrameTerminal(frame) => i > 0
    /\ \E n \in 1 .. Len(wire) :
         LET chunk == SubSeq(wire, 1, n)
             r     == Consume(frame, chunk)
         IN  /\ buf' = chunk
             /\ i' = r.i
             /\ frame' = r.frame
             /\ fed' = fed \o chunk
             /\ consumed' = consumed + r.i
             /\ wire' = SubSeq(wire, r.i + 1, Len(wire))
    /\ UNCHANGED <<harnessFixed, decoded>>

\* the caller keeps the completed frame and makes a new decoder for the rest
NextFrame ==
    /\ pc = "feed"
    /\ Complete(frame)
    /\ wire # <<>>
    /\ decoded' = Append(decoded, frame)
    /\ frame' = NewReceiveFrame
    /\ fed' = <<>>
    /\ consumed' = 0
    /\ buf' = <<>>
    /\ i' = 0
    /\ UNCHANGED <<harnessFixed, wire>>

FeedNext ==
    \/ Feed
    \/ NextFrame

DecoderSpec == FeedInit /\ [][FeedNext]_vars

----------------------------------------------------------------------------
(* Properties.                                                             *)

\* the descriptor the query resolved
Requested == CHOOSE d \in oinfo : TRUE

\* exactly one of --id and --name was given
ExactlyOne == (id.none /\ ~name.none) \/ (~id.none /\ name.none)

LastLog == log[Len(log)]

\* C1: a readability wait that elapses with no data ends receive_frame with
\* TimeoutError: the step in which select times out is the step in which the
\* call fails, it does not go back to waiting.
C1_TimeoutRaised ==
    [][(pc = "recv" /\ lastIO' = "select_timeout")
          => (pc' = "done" /\ exc' = "TimeoutError")]_vars

\* C2: a read that returns zero bytes before the frame is complete ends the
\* receive with ConnectionClosed: the step in which recv returns b'' is the step
\* in which the call fails, it neither polls on nor returns a frame.
C2_ClosedRaised ==
    [][(pc = "recv" /\ lastIO' = "recv_eof")
          => (pc' = "done" /\ exc' = "ConnectionClosed")]_vars

\* a complete, checksum-valid response that carries another id than the requested one
ResponseMismatch == Complete(frame) /\ oinfo # {} /\ frame.id # Requested.object_id

\* C3: once a complete, checksum-valid response with another object id than the
\* requested one has been received, the query can only fail with the unexpected
\* response error and status 1: decode_value is never called, nothing is
\* printed, and exactly one request was sent on one connection.
C3_UnexpectedResponse ==
    ResponseMismatch =>
        /\ pc \in {"check", "done"}
        /\ nDecode = 0 /\ decodeArgs = <<>>
        /\ stdout = <<>>
        /\ nSend = 1 /\ nConnect = 1
        /\ pc = "done" =>
             /\ exitStatus = 1 /\ exc = "SystemExit"
             /\ LastLog = <<"Received unexpected frame", frame.id, Requested.object_id>>

C3_Witness == ResponseMismatch /\ pc = "done" /\ exitStatus = 1

\* a registry lookup was made and bound no descriptor
LookupMissed == nLookup >= 1 /\ oinfo = {}

\* C4: a lookup miss ends the query with the not-found error and status 1 before
\* any socket exists: no socket was created, no connect attempted, nothing sent.
C4_NotFoundBeforeSocket ==
    LookupMissed =>
        /\ pc = "done" /\ exitStatus = 1 /\ exc = "SystemExit"
        /\ log = << <<"Could not find requested id or name">> >>
        /\ sock = "none" /\ nConnect = 0
        /\ nSend = 0 /\ wireOut = <<>>

C4_Witness ==
    LookupMissed /\ pc = "done" /\ name.none /\ id.val = <<"0", "x", "0">>

\* C5: when both or neither of --id and --name are given, the query ends by
\* reporting the validation error and exiting with status 1, without a registry
\* lookup, a connect or a send.
C5_ValidationReported ==
    ~ExactlyOne =>
        /\ pc \in {"start", "done"}
        /\ nLookup = 0 /\ nConnect = 0 /\ nSend = 0
        /\ pc = "done" =>
             /\ exitStatus = 1 /\ exc = "SystemExit"
             /\ log = << <<"Please specify either --id or --name">> >>

\* C6: whatever sock.send returns, every byte of the READ frame has been
\* transmitted by the time the session waits for the response.
C6_FullyWritten ==
    pc = "recv" => wireOut = SendFrame(Command_READ, Requested.object_id, <<>>)

\* the checksum a failed frame carried and the one computed over what it carried
Transmitted == frame.buffer[Len(frame.buffer)]
Computed == CRC(SubSeq(frame.buffer, 1, Len(frame.buffer) - 1))

\* C7: when the decoder signals a checksum mismatch, receive_frame returns no
\* frame and the query ends with status 1 and an error that reports the
\* transmitted and the computed checksum; no id is validated, no payload
\* decoded, nothing printed.
C7_ChecksumPropagates ==
    frame.state = "FAILED" =>
        /\ pc = "done" /\ exitStatus = 1 /\ exc = "SystemExit"
        /\ log # <<>>
        /\ LastLog = <<"Received frame CRC mismatch", Transmitted, Computed>>
        /\ Transmitted # Computed
        /\ \A k \in 1 .. Len(log) : log[k][1] # "Received unexpected frame"
        /\ nDecode = 0 /\ decodeArgs = <<>>
        /\ stdout = <<>>

C7_Witness == frame.state = "FAILED" /\ pc = "done" /\ Len(frame.data) = 1

\* an error of steps 1-6 has happened: the command failed, a readability wait
\* elapsed, or the peer closed
ErrorSeen == exitStatus = 1 \/ lastIO \in {"select_timeout", "recv_eof"}

\* C8: a query opens at most one connection and sends at most one request, and
\* once an error of steps 1-6 has happened it connects, sends and receives no
\* more.
C8_ErrorsTerminal ==
    [][/\ nConnect' <= 1
       /\ nSend' <= 1
       /\ ErrorSeen => (nConnect' = nConnect /\ nSend' = nSend /\ lastIO' = lastIO)]_vars

\* C9: a close that fails after the decode leaves the outcome as it was: the
\* decoded value has been printed, the failure is the last thing logged, and
\* the command exits with status 0.
C9_CloseFailureLogged ==
    sock = "close_failed" =>
        /\ pc = "done" /\ exitStatus = 0 /\ exc = "SystemExit"
        /\ Len(stdout) = 1
        /\ stdout[1].value = DecodeValue(Requested.response_data_type, frame.data).value
        /\ LastLog = <<"Exception when disconnecting from the host">>

C9_Witness == sock = "close_failed" /\ pc = "done" /\ stdout # <<>>

\* what holds of decode_value in every query, failed or not
DecodeDiscipline ==
    /\ nDecode <= 1
    /\ nDecode = 1 =>
         /\ Complete(frame)
         /\ frame.id = Requested.object_id
         /\ decodeArgs = << <<Requested.response_data_type, frame.data>> >>
    /\ (pc = "done" /\ exitStatus = 0) =>
         /\ nDecode = 1
         /\ stdout = << EchoLine(verbose, Requested,
                                 DecodeValue(Requested.response_data_type, frame.data).value) >>
    /\ stdout # <<>> => nDecode = 1

\* C10 as stated: decode_value is called exactly once per successful query and
\* never on a failed one, only after a complete frame with the requested id,
\* with the descriptor's response data type and the frame's payload, and its
\* result is what the query prints.
C10_NeverOnFailure ==
    /\ DecodeDiscipline
    /\ (pc = "done" /\ exitStatus # 0) => nDecode = 0

\* C10, amended: decode_value is called at most once per query, exactly once on
\* a successful one and never on a query that fails before the decode step (a
\* query that fails in decode_value itself has called it once and prints
\* nothing); it is called only after a complete frame with the requested id,
\* with the descriptor's response data type and the frame's payload, and its
\* result is what the query prints.
C10_DecodeOnce ==
    /\ DecodeDiscipline
    /\ (pc = "done" /\ exitStatus # 0 /\ exc # "DecodeError") => nDecode = 0
    /\ exc = "DecodeError" => (nDecode = 1 /\ stdout = <<>> /\ exitStatus = 1)

C10_Witness == pc = "done" /\ exitStatus = 0 /\ nDecode = 1 /\ verbose

\* the latest read completed the frame and brought more bytes than it needed
Leftover == Complete(frame) /\ lastIO = "recv_data" /\ Len(buf) > i

C16_FullBudgetEachWait ==
    /\ lastIO # "none" => budget = TIMEOUT
    /\ exc # "TimeoutError"

\* the waits of the call have taken a full timeout together and the frame was returned
C16_Witness == waited = TIMEOUT /\ lastIO = "recv_data" /\ pc = "check"

\* C17: a query that reaches the connect step, or has a socket, has resolved a
\* descriptor, for every --id and --name that pass the exactly-one check.
C17_ResolvedBeforeConnect ==
    (pc \in {"connect", "send"} \/ sock # "none" \/ nConnect > 0) => oinfo # {}

\* C18: a query that connected does not end with the connection still open: the
\* socket has been closed on every path.
C18_ClosedAtEnd ==
    (pc = "done" /\ sock # "none" /\ sock # "created") => sock \in {"closed", "close_failed"}

\* C19: receive_frame returns only a complete frame; the frame is at every
\* moment what one decoder makes of every byte read so far, in arrival order;
\* and once the bytes of a full valid frame have been read the call has
\* returned.
C19_ReturnsCompleteFrame ==
    /\ (pc \in {"check", "decode", "close"} \/ exitStatus = 0) => Complete(frame)
    /\ frame = Consume(NewReceiveFrame, fed).frame
    /\ pc = "recv" => ~Complete(Consume(NewReceiveFrame, fed).frame)

C19_Witness == pc = "check" /\ Complete(frame) /\ Len(frame.data) = 1 /\ Len(fed) > 2 * MaxChunk

\* the harness encoded one frame, with the right checksum
SingleValid == Len(input) = 1 /\ input[1].delta = 0

\* the frame carries what f was encoded from
Carries(fr, f) == fr.command = f.command /\ fr.id = f.id /\ fr.data = f.payload

\* C12: however one encoded frame is split into non-empty chunks, the decoder
\* fed chunk by chunk is at every point what a decoder fed the same bytes in
\* one call is; when all chunks are in, it is the completed frame of the
\* one-call decode, and the counts consume returned add up to the frame's
\* length.
C12_IncrementalFeed ==
    SingleValid =>
        /\ frame = Consume(NewReceiveFrame, SubSeq(EncodedAll(input), 1, consumed)).frame
        /\ wire = <<>> =>
             /\ Complete(frame)
             /\ frame = Consume(NewReceiveFrame, EncodedAll(input)).frame
             /\ consumed = Len(EncodedAll(input))

\* a frame with an escaped byte, split so that the last chunk is one byte
C12_Witness ==
    /\ SingleValid /\ wire = <<>> /\ Complete(frame)
    /\ input[1].payload = <<ESCAPE_TOKEN, START_TOKEN>>
    /\ Len(buf) = 1

\* two frames, the first with the right checksum, were handed to a new decoder
\* as one chunk
TwoInOneChunk ==
    /\ Len(input) = 2 /\ input[1].delta = 0
    /\ decoded = <<>>
    /\ buf = EncodedAll(input)
    /\ fed = buf

\* C13: of two frames handed over as one chunk, consume takes exactly the first
\* one's bytes, the decoder is complete with the first frame, and the second
\* frame's bytes are left: a new decoder fed what was left completes with the
\* second frame.
C13_LeftoverPreserved ==
    /\ TwoInOneChunk =>
         /\ i = Len(Encoded(input[1]))
         /\ Complete(frame) /\ Carries(frame, input[1])
         /\ wire = Encoded(input[2])
    /\ (Len(input) = 2 /\ Len(decoded) = 1 /\ wire = <<>>) =>
         /\ Carries(decoded[1], input[1])
         /\ Complete(frame) /\ Carries(frame, input[2])

C13_Witness ==
    /\ Len(input) = 2 /\ Len(decoded) = 1 /\ wire = <<>>
    /\ Complete(frame)
    /\ buf = Encoded(input[2])
    /\ input[2].payload # <<>>

\* the bytes the current decoder has consumed
Taken == SubSeq(fed, 1, consumed)

AllFrames == [command : Commands, id : Byte, payload : SeqsUpTo(MaxFramePayload)]

\* start delimiter, header, payload of the declared length and the right checksum
ValidFrames == {SendFrame(f.command, f.id, f.payload) : f \in AllFrames}

\* the same with any other checksum
CorruptFrames ==
    UNION { {FrameBytes(f.command, f.id, f.payload, x) :
                x \in Byte \ {CRC(<<f.command, Len(f.payload), f.id>> \o f.payload)}} :
            f \in AllFrames }

\* C14: the decoder is complete exactly when it has consumed a start delimiter,
\* a header, a payload of the declared length and a checksum that matches; when
\* the checksum does not match it is FAILED, not complete; and a decoder that is
\* DONE or FAILED stays as it is whatever it is fed.
C14_CompleteIffValidated ==
    /\ [](pc = "feed" =>
            /\ Complete(frame) <=> Taken \in ValidFrames
            /\ frame.state = "FAILED" <=> Taken \in CorruptFrames)
    /\ [][(FrameTerminal(frame) /\ decoded' = decoded) => frame' = frame]_vars

\* a failed decoder was offered more bytes
C14_Witness == frame.state = "FAILED" /\ i = 0 /\ buf # <<>> /\ Len(fed) > consumed

\* C15: a frame encoded from a command, an object id and a payload, fed to a
\* decoder in chunks of any size, comes out complete with the same command,
\* object id and payload, also when they hold the delimiter or the escape value.
C15_RoundTrip ==
    (SingleValid /\ wire = <<>>) => (Complete(frame) /\ Carries(frame, input[1]))

C15_Witness ==
    /\ SingleValid /\ wire = <<>> /\ Complete(frame)
    /\ input[1].payload = <<START_TOKEN, ESCAPE_TOKEN>>
    /\ input[1].id = ESCAPE_TOKEN
    /\ consumed = Len(EncodedAll(input))
    /\ Len(buf) = 2

====
